---- MODULE Spec2Model ----
(***************************************************************************)
(* The HTTP transport session manager of the GitLab MCP server             *)
(* (GitLabServer.startHttp): the live session table `transports`, the      *)
(* three handlers of /mcp (POST, GET, DELETE), the callbacks given to      *)
(* every StreamableHTTPServerTransport, and GET /health.                   *)
(*                                                                         *)
(* Node runs the handlers on one event loop: a handler runs without        *)
(* interruption up to its next `await`.  Every action below is one such    *)
(* uninterrupted piece.  The transport class is an SDK object; what it     *)
(* does inside handleRequest is modelled by the Lib* actions, which call   *)
(* the callbacks of the source at the points where the SDK calls them.     *)
(*                                                                         *)
(* Around it: the start of the process (token check, constructor, choice   *)
(* of the transport) and the CallToolRequestSchema handler with the        *)
(* repository tool handlers it dispatches to.                              *)
(*                                                                         *)
(* Session identifiers are strings in the source; here they are integers:  *)
(* 0 is the empty string, 1..MaxId are non-empty strings, UndefinedKey is  *)
(* the string "undefined" and Absent is the JavaScript value undefined.    *)
(***************************************************************************)
EXTENDS Integers, FiniteSets, Sequences, TLC

\* ---------------------------------------------------------------- bounds
MaxId == 1
MaxTransports == 2
MaxReq == 1

\* ------------------------------------------------------- value encodings
\* req.headers['mcp-session-id'] when the header is not sent: undefined
Absent == -1
\* the empty string: a header sent with an empty value, or an empty
\* result of substring(7)
EmptyId == 0
\* the property key JavaScript uses for transports[undefined]
UndefinedKey == -2
\* no transport object
NoTransport == 0

\* Math.random().toString(36).substring(7): a string of base-36 digits,
\* empty when the number has at most five fractional digits; the same
\* string can be produced again, nothing in the source compares it with
\* the keys of the table.
sessionIdGenerator == EmptyId .. MaxId

\* what a client can put in the mcp-session-id header
HeaderVals == {Absent, UndefinedKey} \cup sessionIdGenerator

Bodies == {"initialize", "tools/call"}
TransportIds == 1 .. MaxTransports

\* the header looked up under a name that Node does not use: always undefined
SessionHeader_WrongName(h) == Absent

\* req.headers['mcp-session-id'] of a request that bears h
SessionHeader(h) == h

\* JavaScript truthiness of a string | undefined
Truthy(h) == h # Absent /\ h # EmptyId

\* an object's property key: undefined is converted to "undefined"
Key(h) == IF h = Absent THEN UndefinedKey ELSE h

\* ------------------------------------------------------------- responses
NoResponse == [status |-> 0, body |-> [text |-> "none"]]
\* res.status(400).json({jsonrpc: '2.0', error: {code: -32000, message: 'Invalid session'}, id: null})
InvalidSession ==
  [status |-> 400,
   body |-> [jsonrpc |-> "2.0", error |-> [code |-> -32000, message |-> "Invalid session"],
             id |-> "null"]]
\* the catch of the POST handler
InternalError ==
  [status |-> 500,
   body |-> [jsonrpc |-> "2.0", error |-> [code |-> -32603, message |-> "Internal server error"],
             id |-> "null"]]
\* res.status(500).send('Internal server error') of the GET and DELETE handlers
InternalErrorText == [status |-> 500, body |-> [text |-> "Internal server error"]]
\* answers written by the transport object itself
TransportOk == [status |-> 200, body |-> [text |-> "transport"]]
TransportRejected == [status |-> 400, body |-> [text |-> "transport"]]
\* res.json({status: 'ok', transport: 'streamable-http', activeSessions: n})
HealthResponse(n) ==
  [status |-> 200, body |-> [status |-> "ok", transport |-> "streamable-http", activeSessions |-> n]]

VARIABLES
  transports,   \* the session table: session id -> transport
  tr,           \* the transport objects constructed so far
  nT,           \* number of transport objects constructed
  connectCalls, \* number of calls of this.server.connect
  req,          \* the requests on /mcp that are being served
  res,          \* the response written by the last step, NoResponse if it wrote none
  awaiting,     \* history: the identifiers of closed sessions that no request has borne since
  sessions,     \* history: the sessions created minus the sessions closed
  proc,         \* the process: its environment and how far its start has come
  handlerContext, \* this.handlerContext
  call          \* the call-tool invocation in the CallToolRequestSchema handler

vars == <<transports, tr, nT, connectCalls, req, res, awaiting, sessions,
          proc, handlerContext, call>>

\* the slots of the requests that are being served
ReqIds == DOMAIN req

\* the variables of the HTTP session manager
sessionVars == <<transports, tr, nT, connectCalls, req, res, awaiting, sessions>>

IdleReq == [pc |-> "idle", method |-> "POST", header |-> Absent, body |-> "initialize",
            transport |-> NoTransport, toolInvoked |-> FALSE]

\* sessionId: transport.sessionId, undefined until the transport is initialized;
\* sessClosed: onsessionclosed has been called for it; closed: onclose has
FreshTransport == [sessionId |-> Absent, sessClosed |-> FALSE, closed |-> FALSE]

\* a closed transport that no request refers to: nothing reads its fields again
DeadTransport == [sessionId |-> Absent, sessClosed |-> FALSE, closed |-> TRUE]

\* ------------------------------------------------------ the table itself
\* transports[sessionId], NoTransport when the key is missing
Lookup(tab, h) == IF Key(h) \in DOMAIN tab THEN tab[Key(h)] ELSE NoTransport

\* the test of the header without the test of the table
ReuseBranch_HeaderOnly(tab, h) == Truthy(h)

\* if (sessionId && transports[sessionId]): reuse existing session
ReuseBranch(tab, h) == Truthy(h) /\ Lookup(tab, h) # NoTransport

\* the branch written as a plain else
NewSessionBranch_Else(h) == TRUE

\* else if (!sessionId): new session initialization
NewSessionBranch(h) == ~Truthy(h)

\* onsessioninitialized: transports[id] = transport
onsessioninitialized(tab, id, t) ==
  [k \in DOMAIN tab \cup {id} |-> IF k = id THEN t ELSE tab[k]]

\* onsessionclosed: delete transports[id]
onsessionclosed(tab, id) == [k \in DOMAIN tab \ {id} |-> tab[k]]

\* an onclose that empties the table
onclose_ClearAll(tab, sid) == <<>>

\* transport.onclose: if (transport.sessionId) delete transports[transport.sessionId]
onclose(tab, sid) ==
  IF Truthy(sid) THEN [k \in DOMAIN tab \ {sid} |-> tab[k]] ELSE tab

\* Object.keys(transports).length
activeSessions(tab) == Cardinality(DOMAIN tab)

\* ------------------------------------------------------------ the process
\* process.env.X when X is not set
Unset == "<unset>"

\* values of GITLAB_API_TOKEN and of MCP_TRANSPORT
Tokens == {Unset, "", "glpat-token"}
Selectors == {Unset, "", "http", "stdio", "HTTP"}

\* JavaScript truthiness of process.env.X
EnvSet(v) == v # Unset /\ v # ""

\* the selector compared without regard to case
TRANSPORT_TYPE_AnyCase(sel) == IF sel = "HTTP" THEN "http" ELSE IF EnvSet(sel) THEN sel ELSE "stdio"

\* const TRANSPORT_TYPE = process.env.MCP_TRANSPORT || 'stdio'
TRANSPORT_TYPE(sel) == IF EnvSet(sel) THEN sel ELSE "stdio"

\* this.handlerContext before and after the constructor; the axios instance
\* is known by the PRIVATE-TOKEN header it sends
NoContext ==
  [axiosInstance |-> Unset, integrationsManager |-> FALSE, ciCdManager |-> FALSE,
   usersGroupsManager |-> FALSE]
BuiltContext(token) ==
  [axiosInstance |-> token, integrationsManager |-> TRUE, ciCdManager |-> TRUE,
   usersGroupsManager |-> TRUE]

\* the process when index.js starts to load: built: new GitLabServer() has
\* run; listening: app.listen has been called; stdio: the number of
\* StdioServerTransports connected; exitCode: the argument of process.exit
Loading(token, sel) ==
  [pc |-> "load", token |-> token, selector |-> sel, built |-> FALSE,
   listening |-> FALSE, stdio |-> 0, exitCode |-> 0]

\* the process once startHttp has run
HttpStarted ==
  [pc |-> "http", token |-> "glpat-token", selector |-> "http", built |-> TRUE,
   listening |-> TRUE, stdio |-> 0, exitCode |-> 0]

\* the process once start has connected the stdio transport
StdioStarted(sel) ==
  [pc |-> "stdio", token |-> "glpat-token", selector |-> sel, built |-> TRUE,
   listening |-> FALSE, stdio |-> 1, exitCode |-> 0]

\* ---------------------------------------------------- the tool handlers
\* the arguments the handlers of this file read from params.arguments
Fields ==
  {"project_id", "merge_request_iid", "body", "position", "base_sha", "start_sha",
   "head_sha", "new_path", "old_path", "file_path", "line_number", "line_type",
   "from", "to", "title", "description"}

\* an argument is not supplied ("undefined"), supplied with a falsy value such
\* as 0 or the empty string ("falsy"), or supplied with another value
ArgVals == {"undefined", "falsy", "ok"}
LineTypes == {"undefined", "falsy", "new", "old", "other"}

\* the test !x is false
Present(v) == v # "undefined" /\ v # "falsy"

\* params.arguments || {} of a call without arguments
NoArgs == [f \in Fields |-> "undefined"]

NoError == [class |-> "none", code |-> "none", message |-> <<>>]
\* new McpError(code, message); the message is a sequence of pieces
McpError(code, message) == [class |-> "McpError", code |-> code, message |-> message]
\* what axios rejects with, and what a property read of undefined throws
AxiosError(kind) == [class |-> "AxiosError", code |-> kind, message |-> <<"Request failed">>]
TypeError == [class |-> "TypeError", code |-> "none", message |-> <<"Cannot read properties of undefined">>]

\* values inside a request body: the value the client gave for argument f,
\* the value of mrResponse.data.diff_refs.f, null, and no body at all
Arg(f) == <<"arguments", f>>
Ref(f) == <<"diff_refs", f>>
Null == <<"null">>
NoData == <<>>

NoRequest == [method |-> "none", path |-> "none", data |-> NoData]
Request(method, path) == [method |-> method, path |-> path, data |-> NoData]
\* axiosInstance.post(path, data)
RequestWith(method, path, data) == [method |-> method, path |-> path, data |-> data]

\* what a handler does up to its next await: throw, call GitLab and await the
\* answer, or return formatResponse(response.data)
Throw(e) == [kind |-> "throw", error |-> e, request |-> NoRequest]
Await(rq) == [kind |-> "await", error |-> NoError, request |-> rq]
Return == [kind |-> "return", error |-> NoError, request |-> NoRequest]

listProjects(a) == Await(Request("GET", "/projects"))

getProject(a) ==
  IF ~Present(a.project_id)
    THEN Throw(McpError("InvalidParams", <<"project_id is required">>))
    ELSE Await(Request("GET", "/projects/:id"))

listBranches(a) ==
  IF ~Present(a.project_id)
    THEN Throw(McpError("InvalidParams", <<"project_id is required">>))
    ELSE Await(Request("GET", "/projects/:id/repository/branches"))

listMergeRequests(a) ==
  IF ~Present(a.project_id)
    THEN Throw(McpError("InvalidParams", <<"project_id is required">>))
    ELSE Await(Request("GET", "/projects/:id/merge_requests"))

getMergeRequest(a) ==
  IF ~Present(a.project_id) \/ ~Present(a.merge_request_iid)
    THEN Throw(McpError("InvalidParams", <<"project_id and merge_request_iid are required">>))
    ELSE Await(Request("GET", "/projects/:id/merge_requests/:iid"))

getMergeRequestChanges(a) ==
  IF ~Present(a.project_id) \/ ~Present(a.merge_request_iid)
    THEN Throw(McpError("InvalidParams", <<"project_id and merge_request_iid are required">>))
    ELSE Await(Request("GET", "/projects/:id/merge_requests/:iid/changes"))

createMergeRequestNote(a) ==
  IF ~Present(a.project_id) \/ ~Present(a.merge_request_iid) \/ ~Present(a.body)
    THEN Throw(McpError("InvalidParams",
                        <<"project_id, merge_request_iid, and body are required">>))
    ELSE Await(Request("POST", "/projects/:id/merge_requests/:iid/notes"))

listIssues(a) ==
  IF ~Present(a.project_id)
    THEN Throw(McpError("InvalidParams", <<"project_id is required">>))
    ELSE Await(Request("GET", "/projects/:id/issues"))

getRepositoryFile(a) ==
  IF ~Present(a.project_id) \/ ~Present(a.file_path)
    THEN Throw(McpError("InvalidParams", <<"project_id and file_path are required">>))
    ELSE Await(Request("GET", "/projects/:id/repository/files/:path"))

compareBranches(a) ==
  IF ~Present(a.project_id) \/ ~Present(a.from) \/ ~Present(a.to)
    THEN Throw(McpError("InvalidParams", <<"project_id, from, and to are required">>))
    ELSE Await(Request("GET", "/projects/:id/repository/compare"))

\* the handler without its test of title and description
updateMergeRequest_NoFieldTest(a) ==
  IF ~Present(a.project_id) \/ ~Present(a.merge_request_iid)
    THEN Throw(McpError("InvalidParams", <<"project_id and merge_request_iid are required">>))
    ELSE Await(Request("PUT", "/projects/:id/merge_requests/:iid"))

updateMergeRequest(a) ==
  IF ~Present(a.project_id) \/ ~Present(a.merge_request_iid)
    THEN Throw(McpError("InvalidParams", <<"project_id and merge_request_iid are required">>))
    ELSE IF ~Present(a.title) /\ ~Present(a.description)
      THEN Throw(McpError("InvalidParams",
                          <<"At least one of title or description is required">>))
      ELSE Await(Request("PUT", "/projects/:id/merge_requests/:iid"))

createMergeRequestNoteInternal(a) ==
  IF ~Present(a.project_id) \/ ~Present(a.merge_request_iid) \/ ~Present(a.body)
    THEN Throw(McpError("InvalidParams",
                        <<"project_id, merge_request_iid, and body are required">>))
    ELSE Await(Request("POST", "/projects/:id/merge_requests/:iid/notes"))

createMergeRequestDiscussion(a) ==
  IF \/ ~Present(a.project_id) \/ ~Present(a.merge_request_iid)
     \/ ~Present(a.body) \/ ~Present(a.position)
    THEN Throw(McpError("InvalidParams",
                        <<"project_id, merge_request_iid, body, and position are required">>))
    ELSE IF \/ ~Present(a.base_sha) \/ ~Present(a.start_sha) \/ ~Present(a.head_sha)
            \/ ~Present(a.new_path) \/ ~Present(a.old_path)
      THEN Throw(McpError("InvalidParams",
             <<"position must include base_sha, start_sha, head_sha, new_path, and old_path">>))
      ELSE Await(Request("POST", "/projects/:id/merge_requests/:iid/discussions"))

\* the handler that posts the discussion without fetching the merge request
createMergeRequestDiscussionSimple_PostFirst(a) ==
  IF \/ ~Present(a.project_id) \/ ~Present(a.merge_request_iid) \/ ~Present(a.body)
     \/ ~Present(a.file_path) \/ ~Present(a.line_number) \/ ~Present(a.line_type)
    THEN Throw(McpError("InvalidParams",
      <<"project_id, merge_request_iid, body, file_path, line_number, and line_type are required">>))
    ELSE IF a.line_type # "new" /\ a.line_type # "old"
      THEN Throw(McpError("InvalidParams", <<"line_type must be either \"new\" or \"old\"">>))
      ELSE Await(Request("POST", "/projects/:id/merge_requests/:iid/discussions"))

createMergeRequestDiscussionSimple(a) ==
  IF \/ ~Present(a.project_id) \/ ~Present(a.merge_request_iid) \/ ~Present(a.body)
     \/ ~Present(a.file_path) \/ ~Present(a.line_number) \/ ~Present(a.line_type)
    THEN Throw(McpError("InvalidParams",
      <<"project_id, merge_request_iid, body, file_path, line_number, and line_type are required">>))
    ELSE IF a.line_type # "new" /\ a.line_type # "old"
      THEN Throw(McpError("InvalidParams", <<"line_type must be either \"new\" or \"old\"">>))
      ELSE Await(Request("GET", "/projects/:id/merge_requests/:iid"))

\* a position that puts the line on both sides
SimplePosition_BothLines(a) ==
  [base_sha |-> Ref("base_sha"), start_sha |-> Ref("start_sha"), head_sha |-> Ref("head_sha"),
   position_type |-> "text",
   new_path |-> Arg("file_path"), old_path |-> Arg("file_path"),
   new_line |-> Arg("line_number"), old_line |-> Arg("line_number")]

\* the position object createMergeRequestDiscussionSimple constructs
SimplePosition(a) ==
  [base_sha |-> Ref("base_sha"), start_sha |-> Ref("start_sha"), head_sha |-> Ref("head_sha"),
   position_type |-> "text",
   new_path |-> Arg("file_path"), old_path |-> Arg("file_path"),
   new_line |-> IF a.line_type = "new" THEN Arg("line_number") ELSE Null,
   old_line |-> IF a.line_type = "old" THEN Arg("line_number") ELSE Null]

\* the handlers of this file, as the registry holds them
Handlers ==
  {"listProjects", "getProject", "listBranches", "listMergeRequests", "getMergeRequest",
   "getMergeRequestChanges", "createMergeRequestNote", "listIssues", "getRepositoryFile",
   "compareBranches", "updateMergeRequest", "createMergeRequestNoteInternal",
   "createMergeRequestDiscussion", "createMergeRequestDiscussionSimple"}

\* handler(request.params, this.handlerContext), up to the first await; a
\* value that is not a function cannot be called
Invoke(h, a) ==
  CASE h = "listProjects" -> listProjects(a)
    [] h = "getProject" -> getProject(a)
    [] h = "listBranches" -> listBranches(a)
    [] h = "listMergeRequests" -> listMergeRequests(a)
    [] h = "getMergeRequest" -> getMergeRequest(a)
    [] h = "getMergeRequestChanges" -> getMergeRequestChanges(a)
    [] h = "createMergeRequestNote" -> createMergeRequestNote(a)
    [] h = "listIssues" -> listIssues(a)
    [] h = "getRepositoryFile" -> getRepositoryFile(a)
    [] h = "compareBranches" -> compareBranches(a)
    [] h = "updateMergeRequest" -> updateMergeRequest(a)
    [] h = "createMergeRequestNoteInternal" -> createMergeRequestNoteInternal(a)
    [] h = "createMergeRequestDiscussion" -> createMergeRequestDiscussion(a)
    [] h = "createMergeRequestDiscussionSimple" -> createMergeRequestDiscussionSimple(a)
    [] OTHER -> Throw(TypeError)

\* how an outbound call settles: answered 2xx (with data.diff_refs, with data
\* but no diff_refs, without data), answered with another status, not answered
Outcomes == {"ok", "no_diff_refs", "no_data", "http_error", "network_error"}

\* a handler that contents itself with the merge request it fetched
Resume_ReturnsAfterGet(h, a, n, o) ==
  IF o \in {"http_error", "network_error"}
    THEN Throw(AxiosError(o))
    ELSE IF h = "createMergeRequestDiscussionSimple" /\ n = 1
      THEN CASE o = "no_data" -> Throw(TypeError)
             [] o = "no_diff_refs" ->
                  Throw(McpError("InternalError",
                    <<"Could not retrieve diff_refs from merge request. The MR may not have any commits yet.">>))
             [] OTHER -> Return
      ELSE Return

\* a handler that sends its first call again when GitLab was not reached
Resume_Retry(h, a, n, o) ==
  IF o = "network_error" /\ n = 1
    THEN Await(Request("GET", "/projects/:id/merge_requests/:iid"))
    ELSE IF o \in {"http_error", "network_error"}
    THEN Throw(AxiosError(o))
    ELSE IF h = "createMergeRequestDiscussionSimple" /\ n = 1
      THEN CASE o = "no_data" -> Throw(TypeError)
             [] o = "no_diff_refs" ->
                  Throw(McpError("InternalError",
                    <<"Could not retrieve diff_refs from merge request. The MR may not have any commits yet.">>))
             [] OTHER -> Await(RequestWith("POST", "/projects/:id/merge_requests/:iid/discussions",
                                           [body |-> Arg("body"), position |-> SimplePosition(a)]))
      ELSE Return

\* the handler, called with the arguments a, from the await of its n-th
\* outbound call on, when the call settles as o
Resume(h, a, n, o) ==
  IF o \in {"http_error", "network_error"}
    THEN Throw(AxiosError(o))
    ELSE IF h = "createMergeRequestDiscussionSimple" /\ n = 1
      THEN CASE o = "no_data" -> Throw(TypeError)
             [] o = "no_diff_refs" ->
                  Throw(McpError("InternalError",
                    <<"Could not retrieve diff_refs from merge request. The MR may not have any commits yet.">>))
             [] OTHER -> Await(RequestWith("POST", "/projects/:id/merge_requests/:iid/discussions",
                                           [body |-> Arg("body"), position |-> SimplePosition(a)]))
      ELSE Return

\* the arguments a handler reads
Reads(h) ==
  CASE h = "listProjects" -> {}
    [] h \in {"getProject", "listBranches", "listMergeRequests", "listIssues"} -> {"project_id"}
    [] h \in {"getMergeRequest", "getMergeRequestChanges"} -> {"project_id", "merge_request_iid"}
    [] h \in {"createMergeRequestNote", "createMergeRequestNoteInternal"} ->
         {"project_id", "merge_request_iid", "body"}
    [] h = "getRepositoryFile" -> {"project_id", "file_path"}
    [] h = "compareBranches" -> {"project_id", "from", "to"}
    [] h = "updateMergeRequest" -> {"project_id", "merge_request_iid", "title", "description"}
    [] h = "createMergeRequestDiscussion" ->
         {"project_id", "merge_request_iid", "body", "position", "base_sha", "start_sha",
          "head_sha", "new_path", "old_path"}
    [] h = "createMergeRequestDiscussionSimple" ->
         {"project_id", "merge_request_iid", "body", "file_path", "line_number", "line_type"}
    [] OTHER -> {}

\* the fields of DiscussionPosition that are not optional
PositionFields == {"base_sha", "start_sha", "head_sha", "new_path", "old_path"}

\* the argument bags a client sends to handler h: the arguments h does not
\* read are left out, line_type is any string, position is an object or
\* missing, and its fields are there or not
ArgsFor(h) ==
  {a \in {[f \in Fields |-> IF f = "line_type" THEN lt
                            ELSE IF f \in DOMAIN p THEN p[f]
                            ELSE IF f \in DOMAIN g THEN g[f] ELSE "undefined"] :
             g \in [Reads(h) \ (PositionFields \cup {"line_type"}) -> ArgVals],
             p \in [Reads(h) \cap PositionFields -> {"undefined", "ok"}],
             lt \in IF "line_type" \in Reads(h) THEN LineTypes ELSE {"undefined"}} :
     ~Present(a["position"]) => \A f \in PositionFields : a[f] = "undefined"}

\* ------------------------------------------- the call-tool dispatch core
\* the imported tool registry: tool name -> handler; it is a constant of the
\* module that imports it, nothing assigns to it
toolRegistry ==
  ("list_projects" :> "listProjects") @@ ("get_project" :> "getProject")
  @@ ("list_branches" :> "listBranches") @@ ("list_merge_requests" :> "listMergeRequests")
  @@ ("get_merge_request" :> "getMergeRequest")
  @@ ("get_merge_request_changes" :> "getMergeRequestChanges")
  @@ ("create_merge_request_note" :> "createMergeRequestNote")
  @@ ("list_issues" :> "listIssues") @@ ("get_repository_file" :> "getRepositoryFile")
  @@ ("compare_branches" :> "compareBranches") @@ ("update_merge_request" :> "updateMergeRequest")
  @@ ("create_merge_request_note_internal" :> "createMergeRequestNoteInternal")
  @@ ("create_merge_request_discussion" :> "createMergeRequestDiscussion")
  @@ ("create_merge_request_discussion_simple" :> "createMergeRequestDiscussionSimple")

\* the names a client can put in request.params.name
ToolNames == DOMAIN toolRegistry \cup {"", "no_such_tool", "Get_Project"}

\* toolRegistry[toolName]
Resolve(reg, name) == IF name \in DOMAIN reg THEN reg[name] ELSE "undefined"

\* the dispatch without the test of the handler
UnknownTool_NoTest(reg, name) == FALSE

\* if (!handler)
UnknownTool(reg, name) == Resolve(reg, name) = "undefined"

\* the fixed context message of the catch
ContextMessage == "Error executing GitLab operation"

\* handleApiError(error, contextMessage): a protocol error made of the context
\* message and of the status and body of the answer, or of the fact that
\* GitLab was not reached; a protocol error is passed through
handleApiError(error, contextMessage) ==
  CASE error.class = "McpError" -> error
    [] error.class = "AxiosError" /\ error.code = "http_error" ->
         McpError("InternalError", <<contextMessage, "status", "upstream body">>)
    [] error.class = "AxiosError" /\ error.code = "network_error" ->
         McpError("InternalError", <<contextMessage, "upstream unreachable">>)
    [] OTHER -> McpError("InternalError", <<contextMessage>> \o error.message)

\* the invocation: gitlab: the outbound calls issued, each with the
\* PRIVATE-TOKEN of the axios instance; raised: the error raised inside the
\* try; answers: how the outbound calls settled; formatted, context: the
\* calls of handleApiError and the message given to the last; out: the error
\* that leaves the handler
NewCall(name, a, h) ==
  [pc |-> "entered", name |-> name, handler |-> h, args |-> a, gitlab |-> <<>>,
   answers |-> <<>>, raised |-> NoError, formatted |-> 0, context |-> "", out |-> NoError]

\* no invocation
IdleCall == [pc |-> "idle"]

\* a catch that formats every error
Catch_FormatAll(c, e) ==
  [c EXCEPT !.pc = "thrown", !.raised = e, !.formatted = @ + 1, !.context = ContextMessage,
            !.out = handleApiError(e, ContextMessage)]

\* catch (error): a McpError is thrown again, anything else goes through
\* handleApiError
Catch(c, e) ==
  IF e.class = "McpError"
    THEN [c EXCEPT !.pc = "thrown", !.raised = e, !.out = e]
    ELSE [c EXCEPT !.pc = "thrown", !.raised = e, !.formatted = @ + 1,
                   !.context = ContextMessage, !.out = handleApiError(e, ContextMessage)]

\* the invocation once the handler has run up to its next await
Step(c, o, ctx) ==
  CASE o.kind = "throw" -> Catch(c, o.error)
    [] o.kind = "await" ->
         [c EXCEPT !.pc = "awaiting",
                   !.gitlab = Append(@, [method |-> o.request.method, path |-> o.request.path,
                                         data |-> o.request.data,
                                         auth |-> ctx.axiosInstance])]
    [] OTHER -> [c EXCEPT !.pc = "returned"]

Init ==
  /\ transports = <<>>
  /\ tr = [t \in TransportIds |-> FreshTransport]
  /\ nT = 0
  /\ connectCalls = 0
  /\ req = [r \in 1 .. MaxReq |-> IdleReq]
  /\ res = NoResponse
  /\ awaiting = {}
  /\ sessions = 0
  /\ proc = HttpStarted
  /\ handlerContext = BuiltContext("glpat-token")
  /\ call = IdleCall

\* the routes of startHttp exist once it has run; their handlers write nothing
\* of the process, the handler context or a call-tool invocation
Serving == proc.listening /\ UNCHANGED <<proc, handlerContext, call>>

\* a request that arrives takes the first free slot
Free(r) == req[r].pc = "idle" /\ \A q \in ReqIds : q < r => req[q].pc # "idle"

\* the request in slot r is being served
InFlight(r, m, h, b, pc, t) ==
  [req EXCEPT ![r] = [pc |-> pc, method |-> m, header |-> h, body |-> b,
                      transport |-> t, toolInvoked |-> FALSE]]

\* the response of the request in slot r is written; the requests still being
\* served move up, so that the free slots are the last ones
Finished(r) ==
  [q \in ReqIds |-> IF q < r THEN req[q]
                    ELSE IF q < Len(req) THEN req[q + 1] ELSE IdleReq]

\* history: a request bearing h has arrived
Borne(h) == awaiting' = awaiting \ {h} /\ UNCHANGED sessions

\* history: a close callback has run for the session of transport t
Closing(t) ==
  /\ awaiting' = IF Truthy(tr[t].sessionId) THEN awaiting \cup {tr[t].sessionId} ELSE awaiting
  /\ sessions' = IF Truthy(tr[t].sessionId) /\ ~tr[t].closed /\ ~tr[t].sessClosed
                  THEN sessions - 1 ELSE sessions

\* the transports once the requests are rq: a closed transport that no request
\* is using is garbage
Forget(trs, rq) ==
  [t \in TransportIds |->
     IF trs[t].closed /\ \A r \in ReqIds : rq[r].pc = "idle" \/ rq[r].transport # t
       THEN DeadTransport ELSE trs[t]]

\* ------------------------------------------------------ app.post('/mcp')
\* the handler behind a lock: a request is taken only when none is being served
PostMcp_OneAtATime(r, h, b) ==
  /\ Free(r)
  /\ \A q \in ReqIds : req[q].pc = "idle"
  /\ IF ReuseBranch(transports, SessionHeader(h))
       THEN \* reuse existing session
            /\ res' = NoResponse
            /\ UNCHANGED <<nT, connectCalls, transports, tr>>
            /\ req' = InFlight(r, "POST", h, b, "handed", Lookup(transports, SessionHeader(h)))
       ELSE IF NewSessionBranch(SessionHeader(h))
         THEN \* new transport, transport.onclose set, this.server.connect called
              /\ nT < MaxTransports
              /\ nT' = nT + 1
              /\ connectCalls' = connectCalls + 1
              /\ res' = NoResponse
              /\ UNCHANGED <<transports, tr>>
              /\ req' = InFlight(r, "POST", h, b, "connecting", nT + 1)
         ELSE \* 400 Invalid session
              /\ res' = InvalidSession
              /\ UNCHANGED <<nT, connectCalls, transports, tr, req>>
  /\ Borne(h)
  /\ Serving

\* up to the first await: the branch on the header, and in the reuse branch
\* the call of transport.handleRequest
PostMcp(r, h, b) ==
  /\ Free(r)
  /\ IF ReuseBranch(transports, SessionHeader(h))
       THEN \* reuse existing session
            /\ res' = NoResponse
            /\ UNCHANGED <<nT, connectCalls, transports, tr>>
            /\ req' = InFlight(r, "POST", h, b, "handed", Lookup(transports, SessionHeader(h)))
       ELSE IF NewSessionBranch(SessionHeader(h))
         THEN \* new transport, transport.onclose set, this.server.connect called
              /\ nT < MaxTransports
              /\ nT' = nT + 1
              /\ connectCalls' = connectCalls + 1
              /\ res' = NoResponse
              /\ UNCHANGED <<transports, tr>>
              /\ req' = InFlight(r, "POST", h, b, "connecting", nT + 1)
         ELSE \* 400 Invalid session
              /\ res' = InvalidSession
              /\ UNCHANGED <<nT, connectCalls, transports, tr, req>>
  /\ Borne(h)
  /\ Serving

\* await this.server.connect(transport) resolves: transport.handleRequest is called
PostConnected(r) ==
  /\ req[r].pc = "connecting"
  /\ req' = [req EXCEPT ![r].pc = "handed"]
  /\ res' = NoResponse
  /\ UNCHANGED <<transports, tr, nT, connectCalls>>
  /\ UNCHANGED <<awaiting, sessions>>
  /\ Serving

\* await this.server.connect(transport) rejects: the catch answers 500
PostConnectFailed(r) ==
  /\ req[r].pc = "connecting"
  /\ req' = Finished(r)
  /\ res' = InternalError
  /\ tr' = Forget(tr, req')
  /\ UNCHANGED <<transports, nT, connectCalls>>
  /\ UNCHANGED <<awaiting, sessions>>
  /\ Serving

\* ------------------------------------- app.get('/mcp'), app.delete('/mcp')
\* the handler without its else branch: transport.handleRequest throws on
\* the missing transport and the catch answers 500
GetMcp_NoElse(r, h) ==
  /\ Free(r)
  /\ IF Lookup(transports, h) # NoTransport
       THEN /\ res' = NoResponse
            /\ UNCHANGED <<nT, connectCalls, transports, tr>>
            /\ req' = InFlight(r, "GET", h, "none", "handed", Lookup(transports, h))
       ELSE /\ res' = InternalErrorText
            /\ UNCHANGED <<nT, connectCalls, transports, tr, req>>
  /\ Borne(h)
  /\ Serving

GetMcp(r, h) ==
  /\ Free(r)
  /\ IF Lookup(transports, h) # NoTransport
       THEN /\ res' = NoResponse
            /\ UNCHANGED <<nT, connectCalls, transports, tr>>
            /\ req' = InFlight(r, "GET", h, "none", "handed", Lookup(transports, h))
       ELSE /\ res' = InvalidSession
            /\ UNCHANGED <<nT, connectCalls, transports, tr, req>>
  /\ Borne(h)
  /\ Serving

\* the handler with an await between the lookup and the call of
\* transport.handleRequest: the transport is the one the table held under h
\* when the request arrived, whatever the table holds now
DeleteMcp_AwaitBeforeHandoff(r, h) ==
  /\ Free(r)
  /\ IF \E t \in 1 .. nT : tr[t].sessionId = h /\ Truthy(h)
       THEN /\ res' = NoResponse
            /\ UNCHANGED <<nT, connectCalls, transports, tr>>
            /\ req' = InFlight(r, "DELETE", h, "none", "handed",
                               CHOOSE t \in 1 .. nT : tr[t].sessionId = h)
       ELSE /\ res' = InvalidSession
            /\ UNCHANGED <<nT, connectCalls, transports, tr, req>>
  /\ Borne(h)
  /\ Serving

DeleteMcp(r, h) ==
  /\ Free(r)
  /\ IF Lookup(transports, h) # NoTransport
       THEN /\ res' = NoResponse
            /\ UNCHANGED <<nT, connectCalls, transports, tr>>
            /\ req' = InFlight(r, "DELETE", h, "none", "handed", Lookup(transports, h))
       ELSE /\ res' = InvalidSession
            /\ UNCHANGED <<nT, connectCalls, transports, tr, req>>
  /\ Borne(h)
  /\ Serving

\* a catch that sends the text without res.status(500)
HandlerCatch_NoStatus(r) ==
  /\ req[r].pc \in {"handed", "dispatching", "closing"}
  /\ req' = Finished(r)
  /\ res' = [status |-> 200, body |-> [text |-> "Internal server error"]]
  /\ tr' = Forget(tr, req')
  /\ UNCHANGED <<transports, nT, connectCalls>>
  /\ UNCHANGED <<awaiting, sessions>>
  /\ Serving

\* await transport.handleRequest(...) rejects: the catch of the handler answers 500
HandlerCatch(r) ==
  /\ req[r].pc \in {"handed", "dispatching", "closing"}
  /\ req' = Finished(r)
  /\ res' = IF req[r].method = "POST" THEN InternalError ELSE InternalErrorText
  /\ tr' = Forget(tr, req')
  /\ UNCHANGED <<transports, nT, connectCalls>>
  /\ UNCHANGED <<awaiting, sessions>>
  /\ Serving

\* ------------------------------------ inside transport.handleRequest (SDK)
\* an initialize request on a transport that has no session yet: the SDK takes
\* an identifier from sessionIdGenerator, and calls onsessioninitialized with
\* it when the identifier is truthy
LibInitialize(r, id) ==
  /\ req[r].pc = "handed" /\ req[r].method = "POST" /\ req[r].body = "initialize"
  /\ tr[req[r].transport].sessionId = Absent /\ ~tr[req[r].transport].closed
  /\ tr' = [tr EXCEPT ![req[r].transport].sessionId = id]
  /\ transports' = IF Truthy(id) THEN onsessioninitialized(transports, id, req[r].transport)
                   ELSE transports
  /\ req' = [req EXCEPT ![r].pc = "dispatching"]
  /\ res' = NoResponse
  /\ UNCHANGED <<nT, connectCalls>>
  /\ sessions' = IF Truthy(id) THEN sessions + 1 ELSE sessions
  /\ UNCHANGED awaiting
  /\ Serving

\* the transport answers 4xx itself (not initialized, initialized twice,
\* a header it does not accept)
LibReject(r) ==
  /\ req[r].pc = "handed"
  /\ req' = Finished(r)
  /\ res' = TransportRejected
  /\ tr' = Forget(tr, req')
  /\ UNCHANGED <<transports, nT, connectCalls>>
  /\ UNCHANGED <<awaiting, sessions>>
  /\ Serving

\* a tools/call message on an initialized transport reaches the
\* CallToolRequestSchema handler, the only code that calls GitLab
CallTool(r) ==
  /\ req[r].pc = "handed" /\ req[r].method = "POST" /\ req[r].body = "tools/call"
  /\ tr[req[r].transport].sessionId # Absent
  /\ req' = [req EXCEPT ![r].pc = "dispatching", ![r].toolInvoked = TRUE]
  /\ res' = NoResponse
  /\ UNCHANGED <<transports, tr, nT, connectCalls>>
  /\ UNCHANGED <<awaiting, sessions>>
  /\ Serving

\* the answer of a POST is written
LibRespond(r) ==
  /\ req[r].pc = "dispatching"
  /\ req' = Finished(r)
  /\ res' = TransportOk
  /\ tr' = Forget(tr, req')
  /\ UNCHANGED <<transports, nT, connectCalls>>
  /\ UNCHANGED <<awaiting, sessions>>
  /\ Serving

\* a GET on an initialized transport opens the stream
LibStream(r) ==
  /\ req[r].pc = "handed" /\ req[r].method = "GET"
  /\ tr[req[r].transport].sessionId # Absent
  /\ req' = Finished(r)
  /\ res' = TransportOk
  /\ tr' = Forget(tr, req')
  /\ UNCHANGED <<transports, nT, connectCalls>>
  /\ UNCHANGED <<awaiting, sessions>>
  /\ Serving

\* a DELETE on an initialized transport: the SDK calls onsessionclosed with
\* the transport's session id ...
LibSessionClosed(r) ==
  /\ req[r].pc = "handed" /\ req[r].method = "DELETE"
  /\ tr[req[r].transport].sessionId # Absent
  /\ transports' = onsessionclosed(transports, tr[req[r].transport].sessionId)
  /\ tr' = [tr EXCEPT ![req[r].transport].sessClosed = TRUE]
  /\ req' = [req EXCEPT ![r].pc = "closing"]
  /\ res' = NoResponse
  /\ UNCHANGED <<nT, connectCalls>>
  /\ Closing(req[r].transport)
  /\ Serving

\* ... and then closes the transport, which calls transport.onclose
LibClose(r) ==
  /\ req[r].pc = "closing"
  /\ transports' = onclose(transports, tr[req[r].transport].sessionId)
  /\ req' = Finished(r)
  /\ tr' = Forget([tr EXCEPT ![req[r].transport].closed = TRUE], req')
  /\ res' = TransportOk
  /\ UNCHANGED <<nT, connectCalls>>
  /\ Closing(req[r].transport)
  /\ Serving

\* the transport closes on its own and calls transport.onclose
TransportClose(t) ==
  /\ t <= nT /\ ~tr[t].closed
  /\ \A r \in ReqIds : ~(req[r].pc = "connecting" /\ req[r].transport = t)
  /\ transports' = onclose(transports, tr[t].sessionId)
  /\ tr' = Forget([tr EXCEPT ![t].closed = TRUE], req)
  /\ res' = NoResponse
  /\ UNCHANGED <<nT, connectCalls, req>>
  /\ Closing(t)
  /\ Serving

\* --------------------------------------------------- app.get('/health')
\* a health check that also drops the sessions no request is using
Health_EvictIdle ==
  /\ res' = HealthResponse(activeSessions(transports))
  /\ transports' = [k \in {j \in DOMAIN transports :
                              \E r \in ReqIds : req[r].pc # "idle" /\ req[r].transport = transports[j]}
                     |-> transports[k]]
  /\ UNCHANGED <<tr, nT, connectCalls, req>>
  /\ UNCHANGED <<awaiting, sessions>>
  /\ Serving

Health ==
  /\ res' = HealthResponse(activeSessions(transports))
  /\ UNCHANGED <<transports, tr, nT, connectCalls, req>>
  /\ UNCHANGED <<awaiting, sessions>>
  /\ Serving

\* ----------------------------- setRequestHandler(CallToolRequestSchema)
\* A tools/call request is read by the connected stdio transport (over HTTP
\* the same handler is entered at CallTool).  Up to the first await: the
\* lookup, the test of the handler, and the handler up to its outbound call.
CallToolRequest(name, a) ==
  /\ proc.stdio > 0
  /\ call.pc = "idle"
  /\ call' =
       LET c == NewCall(name, a, Resolve(toolRegistry, name))
       IN IF UnknownTool(toolRegistry, name)
            THEN Catch(c, McpError("InvalidRequest", <<"Unknown tool: ", name>>))
            ELSE Step(c, Invoke(c.handler, a), handlerContext)
  /\ UNCHANGED <<sessionVars, proc, handlerContext>>

\* the outbound call the handler awaits settles; the handler runs on to its
\* next await, its return or its throw
GitLabSettles(o) ==
  /\ call.pc = "awaiting"
  /\ call' = Step([call EXCEPT !.answers = Append(@, o)],
                   Resume(call.handler, call.args, Len(call.gitlab), o), handlerContext)
  /\ UNCHANGED <<sessionVars, proc, handlerContext>>

\* the result or the error has been given to the protocol layer
CallToolDone ==
  /\ call.pc \in {"returned", "thrown"}
  /\ call' = IdleCall
  /\ UNCHANGED <<sessionVars, proc, handlerContext>>

NextCall ==
  \/ /\ call.pc = "idle" /\ proc.stdio > 0
     /\ \E name \in ToolNames : \E a \in ArgsFor(Resolve(toolRegistry, name)) :
          CallToolRequest(name, a)
  \/ \E o \in Outcomes : GitLabSettles(o)
  \/ CallToolDone

\* ------------------------------------------------- the start of index.js
\* the module without the test of the token
LoadModule_NoTest ==
  /\ proc.pc = "load"
  /\ proc' = [proc EXCEPT !.pc = "checked"]
  /\ UNCHANGED <<sessionVars, handlerContext, call>>

\* if (!GITLAB_API_TOKEN) { console.error(...); process.exit(1); }
LoadModule ==
  /\ proc.pc = "load"
  /\ proc' = IF ~EnvSet(proc.token)
               THEN [proc EXCEPT !.pc = "exited", !.exitCode = 1]
               ELSE [proc EXCEPT !.pc = "checked"]
  /\ UNCHANGED <<sessionVars, handlerContext, call>>

\* const server = new GitLabServer(): the Server, the axios instance with the
\* PRIVATE-TOKEN header, the managers, the handler context, the request handlers
Construct ==
  /\ proc.pc = "checked"
  /\ proc' = [proc EXCEPT !.pc = "built", !.built = TRUE]
  /\ handlerContext' = BuiltContext(proc.token)
  /\ UNCHANGED <<sessionVars, call>>

\* if (TRANSPORT_TYPE === 'http') server.startHttp() else server.start()
StartTransport ==
  /\ proc.pc = "built"
  /\ proc' = IF TRANSPORT_TYPE(proc.selector) = "http"
               THEN [proc EXCEPT !.pc = "http", !.listening = TRUE]
               ELSE [proc EXCEPT !.pc = "stdio", !.stdio = @ + 1]
  /\ UNCHANGED <<sessionVars, handlerContext, call>>

\* startHttp or start fails: the catch logs and calls process.exit(1)
StartFailed ==
  /\ proc.pc = "built"
  /\ proc' = [proc EXCEPT !.pc = "exited", !.exitCode = 1]
  /\ UNCHANGED <<sessionVars, handlerContext, call>>

Next ==
  \/ \E r \in ReqIds, h \in HeaderVals, b \in Bodies : PostMcp(r, h, b)
  \/ \E r \in ReqIds : PostConnected(r)
  \/ \E r \in ReqIds : PostConnectFailed(r)
  \/ \E r \in ReqIds, h \in HeaderVals : GetMcp(r, h)
  \/ \E r \in ReqIds, h \in HeaderVals : DeleteMcp(r, h)
  \/ \E r \in ReqIds : HandlerCatch(r)
  \/ \E r \in ReqIds, id \in sessionIdGenerator : LibInitialize(r, id)
  \/ \E r \in ReqIds : LibReject(r)
  \/ \E r \in ReqIds : CallTool(r)
  \/ \E r \in ReqIds : LibRespond(r)
  \/ \E r \in ReqIds : LibStream(r)
  \/ \E r \in ReqIds : LibSessionClosed(r)
  \/ \E r \in ReqIds : LibClose(r)
  \/ \E t \in TransportIds : TransportClose(t)

Spec == Init /\ [][Next]_vars

\* the server with the requests of /health among those of /mcp
NextHealth ==
  \/ Next
  \/ Health

SpecHealth == Init /\ [][NextHealth]_vars

\* the POST route alone, with room for one more request in flight: requests
\* of two sessions can be under way at the same time
InitConcurrent ==
  /\ transports = <<>>
  /\ tr = [t \in TransportIds |-> FreshTransport]
  /\ nT = 0
  /\ connectCalls = 0
  /\ req = [r \in 1 .. MaxReq + 1 |-> IdleReq]
  /\ res = NoResponse
  /\ awaiting = {}
  /\ sessions = 0
  /\ proc = HttpStarted
  /\ handlerContext = BuiltContext("glpat-token")
  /\ call = IdleCall

NextConcurrent ==
  \/ \E r \in ReqIds, h \in HeaderVals, b \in Bodies : PostMcp(r, h, b)
  \/ \E r \in ReqIds : PostConnected(r)
  \/ \E r \in ReqIds : PostConnectFailed(r)
  \/ \E r \in ReqIds : HandlerCatch(r)
  \/ \E r \in ReqIds, id \in sessionIdGenerator : LibInitialize(r, id)
  \/ \E r \in ReqIds : LibReject(r)
  \/ \E r \in ReqIds : CallTool(r)
  \/ \E r \in ReqIds : LibRespond(r)

SpecConcurrent == InitConcurrent /\ [][NextConcurrent]_vars

\* the dispatch core alone, under the stdio transport
InitCall ==
  /\ transports = <<>>
  /\ tr = [t \in TransportIds |-> FreshTransport]
  /\ nT = 0
  /\ connectCalls = 0
  /\ req = [r \in 1 .. MaxReq |-> IdleReq]
  /\ res = NoResponse
  /\ awaiting = {}
  /\ sessions = 0
  /\ proc = StdioStarted(Unset)
  /\ handlerContext = BuiltContext("glpat-token")
  /\ call = IdleCall

SpecCall == InitCall /\ [][NextCall]_vars

\* the whole process, from the load of index.js on
InitProcess ==
  /\ transports = <<>>
  /\ tr = [t \in TransportIds |-> FreshTransport]
  /\ nT = 0
  /\ connectCalls = 0
  /\ req = [r \in 1 .. MaxReq |-> IdleReq]
  /\ res = NoResponse
  /\ awaiting = {}
  /\ sessions = 0
  /\ proc \in {Loading(t, sel) : t \in Tokens, sel \in Selectors}
  /\ handlerContext = NoContext
  /\ call = IdleCall

NextProcess ==
  \/ LoadModule
  \/ Construct
  \/ StartTransport
  \/ StartFailed
  \/ Next
  \/ NextCall

SpecProcess == InitProcess /\ [][NextProcess]_vars

TypeOK ==
  /\ DOMAIN transports \subseteq (sessionIdGenerator \ {EmptyId})
  /\ \A k \in DOMAIN transports : transports[k] \in 1 .. nT
  /\ nT \in 0 .. MaxTransports
  /\ connectCalls = nT

\* ======================================================================
\* Properties
\* ======================================================================
\* A session identifier is a non-empty value of the mcp-session-id header.

\* the 400 answer, written out
IsInvalidSessionAnswer(x) ==
  /\ x.status = 400
  /\ x.body = [jsonrpc |-> "2.0", error |-> [code |-> -32000, message |-> "Invalid session"],
               id |-> "null"]

\* the answer of GET /health
IsHealthAnswer(x) == x.status = 200 /\ "activeSessions" \in DOMAIN x.body

\* everything but the response and the history
Untouched == UNCHANGED <<transports, tr, nT, connectCalls, req>>

\* a request enters service in slot r in this step
Accepted(r) == req[r].pc = "idle" /\ req'[r].pc # "idle"

\* a request is answered by the step in which it arrives: a response is
\* written and the requests in service are the same
Refused == res' # NoResponse /\ req' = req /\ ~IsHealthAnswer(res')

C2_UnknownNeverReachesCore ==
  [][/\ IsInvalidSessionAnswer(res')
          => (req' = req /\ tr' = tr /\ nT' = nT /\ connectCalls' = connectCalls)
     /\ \A r \in ReqIds :
          (Accepted(r) /\ Truthy(req'[r].header))
            => /\ req'[r].header \in DOMAIN transports
               /\ req'[r].transport = transports[req'[r].header]
               /\ nT' = nT /\ connectCalls' = connectCalls
     /\ (nT' # nT \/ connectCalls' # connectCalls)
          => \E r \in ReqIds : /\ Accepted(r) /\ req'[r].pc = "connecting"
                               /\ req'[r].method = "POST" /\ ~Truthy(req'[r].header)
     /\ \A r \in ReqIds :
          req'[r].toolInvoked
            => (req'[r].pc = "dispatching" /\ req'[r].transport \in 1 .. nT')]_vars

\* an identifier has just been refused after two transports were constructed,
\* one of them the transport of a live session
C2_Witness ==
  /\ IsInvalidSessionAnswer(res)
  /\ nT = 2 /\ connectCalls = 2
  /\ Cardinality(DOMAIN transports) = 1

C4_FreshIdentifier ==
  [][\A t \in TransportIds :
       (tr[t].sessionId = Absent /\ Truthy(tr'[t].sessionId))
         => tr'[t].sessionId \notin DOMAIN transports]_vars

\* the transport has a session, and neither close callback has run for it
Live(t) == t <= nT /\ Truthy(tr[t].sessionId) /\ ~tr[t].closed /\ ~tr[t].sessClosed

\* C5: every transport that is initialized and not closed is the value of the
\* session table under its own identifier, and no two of them have the same
\* identifier.
C5_OneTransportPerIdentifier ==
  /\ \A t \in TransportIds :
       Live(t) => /\ tr[t].sessionId \in DOMAIN transports
                  /\ transports[tr[t].sessionId] = t
  /\ \A t, u \in TransportIds :
       (Live(t) /\ Live(u) /\ t # u) => tr[t].sessionId # tr[u].sessionId

\* C6: a POST or GET bearing an identifier that is a key of the session table
\* is handed to the transport the table holds under that identifier; no
\* transport is constructed, server.connect is not called, the table and the
\* transports do not change.
C6_ReuseHandsToRegistered ==
  [][\A r \in {q \in ReqIds : Free(q)}, h \in DOMAIN transports :
       (Truthy(h)
          /\ ((\E b \in Bodies : PostMcp(r, h, b)) \/ GetMcp(r, h)))
         => /\ req'[r].pc = "handed" /\ req'[r].header = h
            /\ req'[r].transport = transports[h]
            /\ nT' = nT /\ connectCalls' = connectCalls
            /\ transports' = transports /\ tr' = tr]_vars

\* a request is with the second transport, the one of the session it names
C6_Witness ==
  \E r \in ReqIds :
    /\ req[r].pc = "handed" /\ req[r].method \in {"POST", "GET"}
    /\ Truthy(req[r].header) /\ req[r].header \in DOMAIN transports
    /\ transports[req[r].header] = req[r].transport
    /\ req[r].transport = 2 /\ nT = 2 /\ connectCalls = 2

\* a close callback runs in this step for transport t
CloseTrigger(t) == tr'[t].closed # tr[t].closed \/ tr'[t].sessClosed # tr[t].sessClosed

\* C7: once a DELETE of a live identifier has been processed, or the transport
\* of the session has closed on its own, the identifier is not a key of the
\* table, the next request that bears it is answered "Invalid session", and a
\* request that bears an identifier missing from the table does not bring it back.
C7_ClosedStaysRejected ==
  [][/\ \A t \in TransportIds :
          (CloseTrigger(t) /\ Truthy(tr[t].sessionId))
            => tr[t].sessionId \notin DOMAIN transports'
     /\ \A r \in {q \in ReqIds : Free(q)}, h \in awaiting :
          ((\E b \in Bodies : PostMcp(r, h, b)) \/ GetMcp(r, h) \/ DeleteMcp(r, h))
            => (IsInvalidSessionAnswer(res') /\ req' = req)
     /\ \A r \in {q \in ReqIds : Free(q)}, h \in HeaderVals :
          (Truthy(h) /\ h \notin DOMAIN transports
             /\ ((\E b \in Bodies : PostMcp(r, h, b)) \/ GetMcp(r, h) \/ DeleteMcp(r, h)))
            => h \notin DOMAIN transports']_vars

\* C8: when both close callbacks run for one session, the first removes its
\* identifier from the table and the second changes nothing: the table after
\* the second is the table before it, without the identifier.
C8_RemovedExactlyOnce ==
  [][\A t \in TransportIds :
       /\ (CloseTrigger(t) /\ Truthy(tr[t].sessionId))
            => tr[t].sessionId \notin DOMAIN transports'
       /\ (CloseTrigger(t) /\ Truthy(tr[t].sessionId) /\ (tr[t].closed \/ tr[t].sessClosed))
            => transports' = transports]_vars

\* C9: the activeSessions of GET /health is the number of keys of the session
\* table, which is the number of sessions created minus the number of sessions
\* closed, and 0 on a server that has created none.
C9_HealthCountsSessions ==
  [][IsHealthAnswer(res')
       => /\ res'.body.activeSessions = Cardinality(DOMAIN transports')
          /\ res'.body.activeSessions = sessions'
          /\ (nT' = 0 => res'.body.activeSessions = 0)]_vars

\* C10: GET /health leaves the session table as it is, constructs no transport,
\* does not call server.connect, and starts no tool handler or GitLab call.
C10_HealthHasNoEffect ==
  [][IsHealthAnswer(res') => Untouched]_vars

\* /health has just answered while a session is live and a tool call is running
C10_Witness ==
  /\ IsHealthAnswer(res) /\ res.body.activeSessions = 1 /\ DOMAIN transports # {}
  /\ \E r \in ReqIds : req[r].pc = "dispatching" /\ req[r].toolInvoked

\* C11: a POST without session header that carries a valid initialize request
\* is answered 200 with a session identifier, and the session table then has
\* one identifier more.  The identifier the transport is given is the one it
\* puts in the response header; the table is counted at the step in which the
\* transport processes the initialize request.
C11_InitializeAddsOneSession ==
  [][\A r \in ReqIds :
       /\ ( /\ req[r].pc = "handed" /\ req[r].method = "POST" /\ req[r].header = Absent
            /\ req[r].body = "initialize" /\ req'[r].pc = "dispatching"
            /\ req'[r].transport = req[r].transport )
            => /\ Truthy(tr'[req[r].transport].sessionId)
               /\ Cardinality(DOMAIN transports') = Cardinality(DOMAIN transports) + 1
       /\ ( /\ req[r].pc = "dispatching" /\ req[r].method = "POST" /\ req[r].header = Absent
            /\ req[r].body = "initialize" /\ req' = Finished(r) /\ res' # InternalError )
            => res'.status = 200]_vars

\* C12: a POST starts a new session only when the session header is absent: a
\* POST whose header is present, the empty value included, and names no live
\* session constructs no transport and does not enter service.
C12_NewSessionOnlyWithoutHeader ==
  [][/\ \A r \in ReqIds :
          (Accepted(r) /\ req'[r].method = "POST" /\ req'[r].header # Absent)
            => /\ req'[r].header \in DOMAIN transports
               /\ req'[r].pc = "handed" /\ nT' = nT
     /\ nT' # nT => \E r \in ReqIds : Accepted(r) /\ req'[r].header = Absent]_vars

TableConsistent ==
  \A k \in DOMAIN transports :
    /\ transports[k] \in 1 .. nT
    /\ tr[transports[k]].sessionId = k
    /\ ~tr[transports[k]].closed /\ ~tr[transports[k]].sessClosed

Required(h) ==
  CASE h \in {"getProject", "listBranches", "listMergeRequests", "listIssues"} -> {"project_id"}
    [] h \in {"getMergeRequest", "getMergeRequestChanges", "updateMergeRequest"} ->
         {"project_id", "merge_request_iid"}
    [] h \in {"createMergeRequestNote", "createMergeRequestNoteInternal"} ->
         {"project_id", "merge_request_iid", "body"}
    [] h = "getRepositoryFile" -> {"project_id", "file_path"}
    [] h = "compareBranches" -> {"project_id", "from", "to"}
    [] h = "createMergeRequestDiscussion" -> {"project_id", "merge_request_iid", "body", "position"}
    [] h = "createMergeRequestDiscussionSimple" ->
         {"project_id", "merge_request_iid", "body", "file_path", "line_number", "line_type"}
    [] OTHER -> {}

\* the required arguments that the bag a does not have, the required fields of
\* a supplied position object included
Missing(h, a) ==
  {f \in Required(h) : a[f] = "undefined"}
    \cup (IF h = "createMergeRequestDiscussion" /\ a["position"] = "ok"
            THEN {f \in PositionFields : a[f] = "undefined"} ELSE {})

\* the arguments an error message names
Mentions(m) ==
  CASE m = <<"project_id is required">> -> {"project_id"}
    [] m = <<"project_id and merge_request_iid are required">> -> {"project_id", "merge_request_iid"}
    [] m = <<"project_id, merge_request_iid, and body are required">> ->
         {"project_id", "merge_request_iid", "body"}
    [] m = <<"project_id and file_path are required">> -> {"project_id", "file_path"}
    [] m = <<"project_id, from, and to are required">> -> {"project_id", "from", "to"}
    [] m = <<"At least one of title or description is required">> -> {"title", "description"}
    [] m = <<"project_id, merge_request_iid, body, and position are required">> ->
         {"project_id", "merge_request_iid", "body", "position"}
    [] m = <<"position must include base_sha, start_sha, head_sha, new_path, and old_path">> ->
         {"position", "base_sha", "start_sha", "head_sha", "new_path", "old_path"}
    [] m = <<"project_id, merge_request_iid, body, file_path, line_number, and line_type are required">> ->
         {"project_id", "merge_request_iid", "body", "file_path", "line_number", "line_type"}
    [] m = <<"line_type must be either \"new\" or \"old\"">> -> {"line_type"}
    [] OTHER -> {}

\* C17: when a call-tool invocation lacks an argument its handler declares
\* required, a required field of the position object of
\* createMergeRequestDiscussion included, it ends with an invalid-params
\* protocol error whose message names a missing field, and no call to GitLab
\* is made.
C17_MissingRequiredIsInvalidParams ==
  (call.pc # "idle" /\ call.handler \in Handlers /\ Missing(call.handler, call.args) # {})
    => /\ call.pc = "thrown"
       /\ call.out.class = "McpError" /\ call.out.code = "InvalidParams"
       /\ call.gitlab = <<>>
       /\ Mentions(call.out.message) \cap Missing(call.handler, call.args) # {}

\* C18: an error that leaves call-tool is a protocol error: a McpError raised
\* by the handler or by the unknown-tool test leaves as it was raised, without
\* passing through handleApiError; any other error passes through
\* handleApiError once, with the context message 'Error executing GitLab
\* operation', and what leaves is the protocol error handleApiError made.
C18_FailuresAreProtocolErrors ==
  call.pc = "thrown"
    => /\ call.out.class = "McpError"
       /\ call.raised.class = "McpError" => (call.out = call.raised /\ call.formatted = 0)
       /\ call.raised.class # "McpError"
            => /\ call.formatted = 1 /\ call.context = "Error executing GitLab operation"
               /\ call.out # call.raised
               /\ Head(call.out.message) = "Error executing GitLab operation"

\* the failure of an outbound call has left call-tool, formatted once
C18_Witness ==
  /\ call.pc = "thrown" /\ call.raised.class = "AxiosError" /\ call.formatted = 1
  /\ call.out.class = "McpError" /\ Len(call.gitlab) = 2

\* C19: when GITLAB_API_TOKEN is unset or empty the process exits with code 1
\* at the test made while index.js loads: the server object is never built,
\* no handler context and no HTTP client exist, no transport is connected, no
\* port is listened on, and no request of a client is accepted or answered.
C19_NoTokenNoServer ==
  ~EnvSet(proc.token)
    => /\ proc.pc \in {"load", "exited"}
       /\ proc.pc = "exited" => proc.exitCode = 1
       /\ ~proc.built /\ handlerContext = NoContext
       /\ ~proc.listening /\ proc.stdio = 0
       /\ nT = 0 /\ connectCalls = 0 /\ transports = <<>>
       /\ \A r \in ReqIds : req[r].pc = "idle"
       /\ res = NoResponse /\ call.pc = "idle"

\* the process has exited on an empty token
C19_Witness ==
  /\ proc.pc = "exited" /\ proc.token = "" /\ proc.exitCode = 1
  /\ handlerContext = NoContext

\* the process has started one of its two transports
Started == proc.pc \in {"http", "stdio"}

\* C20: a started process runs exactly one transport mode and keeps it: the
\* HTTP mode exactly when MCP_TRANSPORT is the string 'http'; for every other
\* value, unset and empty included, the stdio mode with its single transport,
\* no session table, no HTTP transport and no answer of an HTTP endpoint.
C20_OneTransportMode ==
  /\ [](Started =>
         /\ proc.listening <=> proc.stdio = 0
         /\ proc.listening <=> proc.selector = "http"
         /\ proc.listening <=> proc.pc = "http"
         /\ proc.stdio <= 1
         /\ proc.stdio = 1
              => /\ transports = <<>> /\ nT = 0 /\ connectCalls = 0
                 /\ res = NoResponse /\ \A r \in ReqIds : req[r].pc = "idle"
         /\ proc.listening => call.pc = "idle")
  /\ [][Started => proc' = proc]_vars

\* MCP_TRANSPORT=HTTP has started the stdio transport, which has served a call
C20_Witness ==
  /\ proc.pc = "stdio" /\ proc.selector = "HTTP" /\ proc.stdio = 1
  /\ ~proc.listening /\ call.pc = "returned"

\* C21 as claimed: an invocation that returns a result has issued exactly one
\* outbound call to GitLab, whatever the handler.
C21_OneCallPerInvocation ==
  (call.pc = "returned" /\ call.handler \in Handlers) => Len(call.gitlab) = 1

\* the outbound calls a handler issues before it returns
CallsOf(h) == IF h = "createMergeRequestDiscussionSimple" THEN 2 ELSE 1

\* C21 amended: every handler other than createMergeRequestDiscussionSimple
\* issues exactly one outbound call before it returns its result, and
\* createMergeRequestDiscussionSimple exactly two, the GET of the merge
\* request and then the POST of the discussion; no invocation issues more, and
\* one that is not refused as invalid-params issues at least one.
C21_OneCallExceptSimple ==
  (call.pc # "idle" /\ call.handler \in Handlers)
    => /\ call.pc = "returned" => Len(call.gitlab) = CallsOf(call.handler)
       /\ Len(call.gitlab) <= CallsOf(call.handler)
       /\ ~(call.pc = "thrown" /\ call.raised.code = "InvalidParams") => Len(call.gitlab) >= 1
       /\ \A i \in 1 .. Len(call.gitlab) : call.gitlab[i].method \in {"GET", "POST", "PUT"}

\* createMergeRequestDiscussionSimple has returned its result after two calls
C21_Witness ==
  /\ call.pc = "returned" /\ call.handler = "createMergeRequestDiscussionSimple"
  /\ Len(call.gitlab) = 2 /\ call.answers = <<"ok", "ok">>

\* an outbound call has failed: GitLab answered with an error status or was
\* not reached
Failed(o) == o \in {"http_error", "network_error"}

\* C22: a failed outbound call is the last call of its invocation: nothing is
\* sent after it, neither the same call again nor the next one, and the
\* invocation ends with a protocol error.
C22_NoRetry ==
  call.pc # "idle"
    => \A i \in 1 .. Len(call.answers) :
         Failed(call.answers[i])
           => /\ i = Len(call.answers) /\ Len(call.gitlab) = i
              /\ call.pc = "thrown" /\ call.raised.class = "AxiosError"
              /\ call.out.class = "McpError"

\* the GET of createMergeRequestDiscussionSimple did not reach GitLab
C22_Witness ==
  /\ call.pc = "thrown" /\ call.handler = "createMergeRequestDiscussionSimple"
  /\ call.answers = <<"network_error">> /\ Len(call.gitlab) = 1

\* C23: a close callback of one transport (onsessionclosed or onclose)
\* removes no entry of the table that is bound to another transport: every
\* key that held a different transport before the step holds it after, also
\* when that key is the identifier of the transport that closes.
C23_CloseRemovesOwnEntryOnly ==
  [][\A t \in TransportIds :
       CloseTrigger(t)
         => \A k \in DOMAIN transports :
              transports[k] # t => (k \in DOMAIN transports' /\ transports'[k] = transports[k])]_vars

\* C25: createMergeRequestDiscussionSimple issues the GET of the merge request
\* first, and the POST of the discussion only after that GET was answered with
\* diff_refs; when the GET fails or is answered without diff_refs the
\* invocation ends with an error after that one call, and the error is the
\* InternalError the handler raises when diff_refs is what is missing.
C25_SimpleGetThenPost ==
  (call.pc # "idle" /\ call.handler = "createMergeRequestDiscussionSimple")
    => /\ Len(call.gitlab) <= 2
       /\ Len(call.gitlab) >= 1
            => /\ call.gitlab[1].method = "GET"
               /\ call.gitlab[1].path = "/projects/:id/merge_requests/:iid"
       /\ Len(call.gitlab) = 2
            => /\ call.gitlab[2].method = "POST"
               /\ call.gitlab[2].path = "/projects/:id/merge_requests/:iid/discussions"
               /\ Len(call.answers) >= 1 /\ call.answers[1] = "ok"
       /\ (Len(call.answers) >= 1 /\ call.answers[1] # "ok")
            => (call.pc = "thrown" /\ Len(call.gitlab) = 1)
       /\ (Len(call.answers) >= 1 /\ call.answers[1] = "no_diff_refs")
            => /\ call.out.class = "McpError" /\ call.out.code = "InternalError"
               /\ call.out = call.raised

\* the merge request was fetched and has no diff_refs
C25_Witness ==
  /\ call.pc = "thrown" /\ call.handler = "createMergeRequestDiscussionSimple"
  /\ call.answers = <<"no_diff_refs">> /\ Len(call.gitlab) = 1
  /\ call.out.code = "InternalError"

\* C26: createMergeRequestDiscussionSimple refuses a line_type other than
\* 'new' and 'old' as invalid-params without any outbound call; the position
\* it posts has line_number in new_line for 'new' and in old_line for 'old',
\* null in the other, file_path in both paths and the three SHAs of the
\* diff_refs it fetched.
C26_SimplePosition ==
  (call.pc # "idle" /\ call.handler = "createMergeRequestDiscussionSimple")
    => /\ call.args.line_type \notin {"new", "old"}
            => /\ call.pc = "thrown" /\ call.out.class = "McpError"
               /\ call.out.code = "InvalidParams" /\ call.gitlab = <<>>
       /\ Len(call.gitlab) = 2
            => LET p == call.gitlab[2].data.position
               IN /\ call.args.line_type \in {"new", "old"}
                  /\ call.args.line_type = "new"
                       => (p.new_line = Arg("line_number") /\ p.old_line = Null)
                  /\ call.args.line_type = "old"
                       => (p.old_line = Arg("line_number") /\ p.new_line = Null)
                  /\ (p.new_line = Null) # (p.old_line = Null)
                  /\ p.new_path = Arg("file_path") /\ p.old_path = Arg("file_path")
                  /\ p.base_sha = Ref("base_sha") /\ p.start_sha = Ref("start_sha")
                  /\ p.head_sha = Ref("head_sha")

\* a discussion on a line of the old side has been posted
C26_Witness ==
  /\ call.pc # "idle" /\ call.handler = "createMergeRequestDiscussionSimple"
  /\ Len(call.gitlab) = 2 /\ call.args.line_type = "old"
  /\ call.gitlab[2].data.position.old_line = Arg("line_number")
  /\ call.gitlab[2].data.position.new_line = Null

\* the arguments pass the tests a handler makes of their values: line_type is
\* 'new' or 'old', a position is an object, an update names a title or a
\* description
WellFormed(h, a) ==
  /\ h = "createMergeRequestDiscussionSimple" => a["line_type"] \in {"new", "old"}
  /\ h = "createMergeRequestDiscussion" => a["position"] = "ok"
  /\ h = "updateMergeRequest" => (a["title"] = "ok" \/ a["description"] = "ok")

\* C27: an invocation whose required arguments are all supplied, whatever
\* their values (0 and the empty string included), is not refused as
\* invalid-params: the handler goes on to its outbound call.
C27_SuppliedIsNotMissing ==
  (/\ call.pc # "idle" /\ call.handler \in Handlers
   /\ Missing(call.handler, call.args) = {} /\ WellFormed(call.handler, call.args))
    => /\ ~(call.pc = "thrown" /\ call.raised.code = "InvalidParams")
       /\ Len(call.gitlab) >= 1

\* C28: updateMergeRequest sends its PUT only when project_id,
\* merge_request_iid and one of title and description are supplied, and it
\* sends nothing else; with both identifiers and neither title nor description
\* it ends with the invalid-params error of its second test and no outbound call.
C28_UpdateNeedsAField ==
  (call.pc # "idle" /\ call.handler = "updateMergeRequest")
    => /\ call.gitlab # <<>>
            => /\ call.args.project_id # "undefined" /\ call.args.merge_request_iid # "undefined"
               /\ (call.args.title # "undefined" \/ call.args.description # "undefined")
               /\ Len(call.gitlab) = 1 /\ call.gitlab[1].method = "PUT"
       /\ (/\ call.args.project_id = "ok" /\ call.args.merge_request_iid = "ok"
           /\ call.args.title = "undefined" /\ call.args.description = "undefined")
            => /\ call.pc = "thrown" /\ call.gitlab = <<>>
               /\ call.out = McpError("InvalidParams",
                                      <<"At least one of title or description is required">>)

\* an update that names the merge request and nothing to change was refused
C28_Witness ==
  /\ call.pc = "thrown" /\ call.handler = "updateMergeRequest"
  /\ call.args.project_id = "ok" /\ call.args.merge_request_iid = "ok"
  /\ call.args.title = "undefined" /\ call.args.description = "undefined"
  /\ call.out.message = <<"At least one of title or description is required">>

\* C24: a request that bears the identifier of a registered session can be
\* taken whatever the other requests in flight are doing (waiting for
\* server.connect, waiting inside their transport, waiting for GitLab), and
\* the step that takes it looks the transport up and hands the request to it
\* without changing any other request, the table or a transport.
C24_SessionsIndependent ==
  \A r \in ReqIds, h \in DOMAIN transports :
    (Free(r) /\ Truthy(h))
      => ENABLED (/\ PostMcp(r, h, "tools/call")
                  /\ req'[r].pc = "handed" /\ req'[r].transport = transports[h]
                  /\ \A q \in ReqIds \ {r} : req'[q] = req[q]
                  /\ transports' = transports /\ tr' = tr /\ nT' = nT)

\* a request is with the transport of its session while the initialization
\* of another session waits for server.connect
C24_Witness ==
  \E q, r \in ReqIds :
    /\ q # r /\ req[q].pc = "connecting"
    /\ req[r].pc = "handed" /\ req[r].body = "tools/call" /\ Truthy(req[r].header)
    /\ req[r].header \in DOMAIN transports /\ transports[req[r].header] = req[r].transport
    /\ req[q].transport # req[r].transport

====
